---- MODULE Spec2Model ----
(***************************************************************************)
(* Model of tg-ai-gen: the DeepSeek completion client (deepseek_client.py) *)
(* and the one-shot channel dispatch loop (main.py).                       *)
(*                                                                         *)
(* Python strings are sequences of one-character strings.  A response body *)
(* is either text that json.loads rejects, RawText(chars), or a JSON        *)
(* document, written as the value json.loads returns for it.               *)
(***************************************************************************)
EXTENDS Integers, Sequences, FiniteSets

VARIABLES
    base_url,      \* config.deepseek.ds_base_url
    endpoint,      \* endpoint of generate_text, [built, url]
    status,        \* resp.status of the response being handled
    body,          \* raw_text of the response being handled
    result,        \* what generate_text returned or raised for (status, body)
    tasks,         \* channel_id_to_prompt.items(), in iteration order
    idx,           \* position of the for loop in tasks (1-based)
    pc,            \* where run_once is
    channel_id,    \* local channel_id of run_once
    text,          \* local text of run_once
    report,        \* the lines printed so far
    sendLog,       \* the bot.send_message calls made so far
    genRes,        \* per task: how its generate_text call ended
    genText,       \* per task: the text its generate_text call returned
    sendRes,       \* per task: how its send_message call ended
    genInFlight,   \* tasks whose generate_text call is awaited
    sendInFlight   \* tasks whose send_message call is awaited

vars == <<base_url, endpoint, status, body, result, tasks, idx, pc, channel_id,
          text, report, sendLog, genRes, genText, sendRes, genInFlight,
          sendInFlight>>

urlVars == <<base_url, endpoint>>
respVars == <<status, body, result>>
runVars == <<tasks, idx, pc, channel_id, text, report, sendLog, genRes, genText,
             sendRes, genInFlight, sendInFlight>>

----------------------------------------------------------------------------
(* Bounds *)

MaxUrlLen == 4

MaxTasks == 3

----------------------------------------------------------------------------
(* Python str operations used by the code *)

Whitespace == {" ", "\n", "\t"}

RECURSIVE RStrip(_, _)
RStrip(s, chars) ==
    IF Len(s) > 0 /\ s[Len(s)] \in chars
    THEN RStrip(SubSeq(s, 1, Len(s) - 1), chars)
    ELSE s

RECURSIVE LStrip(_, _)
LStrip(s, chars) ==
    IF Len(s) > 0 /\ s[1] \in chars
    THEN LStrip(SubSeq(s, 2, Len(s)), chars)
    ELSE s

Strip(s) == LStrip(RStrip(s, Whitespace), Whitespace)

\* s.split(sep)[-1]: what follows the last occurrence of sep, or all of s
RECURSIVE LastSegment(_, _)
LastSegment(s, sep) ==
    IF Len(s) = 0 THEN <<>>
    ELSE IF s[Len(s)] = sep THEN <<>>
    ELSE Append(LastSegment(SubSeq(s, 1, Len(s) - 1), sep), s[Len(s)])

\* sub in s
Contains(sub, s) ==
    \E i \in 1..(Len(s) - Len(sub) + 1) : SubSeq(s, i, i + Len(sub) - 1) = sub

----------------------------------------------------------------------------
(* generate_text: endpoint construction *)

ChatCompletions ==
    <<"/", "c", "h", "a", "t", "/", "c", "o", "m", "p", "l", "e", "t", "i", "o", "n", "s">>

V1ChatCompletions == <<"/", "v", "1">> \o ChatCompletions

HasVersionSuffix(url) == Contains(<<"/", "v">>, LastSegment(url, "/"))

Endpoint(configured) ==
    LET url == RStrip(configured, {"/"})
    IN  IF HasVersionSuffix(url)
        THEN url \o ChatCompletions
        ELSE url \o V1ChatCompletions

----------------------------------------------------------------------------
(* JSON values as json.loads returns them *)

JNull == [t |-> "null"]
JBool(b) == [t |-> "bool", b |-> b]
JNum(n) == [t |-> "num", n |-> n]
JStr(s) == [t |-> "str", s |-> s]
JList(l) == [t |-> "list", items |-> l]
JObj(f) == [t |-> "obj", fields |-> f]
NoFields == [k \in {} |-> JNull]
RawText(s) == [t |-> "raw", chars |-> s]

IsJson(b) == b.t # "raw"

\* Python truth value, as `or` tests it
Truthy(j) ==
    CASE j.t = "null" -> FALSE
      [] j.t = "bool" -> j.b
      [] j.t = "num" -> j.n # 0
      [] j.t = "str" -> Len(j.s) > 0
      [] j.t = "list" -> Len(j.items) > 0
      [] j.t = "obj" -> DOMAIN j.fields # {}

Ok(val) == [ok |-> TRUE, val |-> val]
Raised(exc) == [ok |-> FALSE, val |-> exc]

\* j.get(key, default): AttributeError unless j is a dict
DictGet(j, key, default) ==
    IF j.t # "obj" THEN Raised("AttributeError")
    ELSE IF key \in DOMAIN j.fields THEN Ok(j.fields[key])
    ELSE Ok(default)

\* j[key] for a str key
Subscript(j, key) ==
    IF j.t # "obj" THEN Raised("TypeError")
    ELSE IF key \in DOMAIN j.fields THEN Ok(j.fields[key])
    ELSE Raised("KeyError")

\* j[0]
First(j) ==
    CASE j.t = "list" -> IF Len(j.items) > 0 THEN Ok(j.items[1]) ELSE Raised("IndexError")
      [] j.t = "str" -> IF Len(j.s) > 0 THEN Ok(JStr(<<j.s[1]>>)) ELSE Raised("IndexError")
      [] j.t = "obj" -> Raised("KeyError")
      [] OTHER -> Raised("TypeError")

----------------------------------------------------------------------------
(* generate_text: response handling *)

\* how a call ends: the text it returns, or the exception it raises with the
\* status and the value its message is formatted from
Returned(s) ==
    [kind |-> "return", exc |-> "none", msg |-> "none", status |-> 0, detail |-> JNull,
     text |-> s]
RaisedError(exc, msg, st, detail) ==
    [kind |-> "raise", exc |-> exc, msg |-> msg, status |-> st, detail |-> detail,
     text |-> <<>>]

ApiErrorMsg == "DeepSeek API error"
NonJsonMsg == "DeepSeek returned non-JSON response"
FormatMsg == "Unexpected DeepSeek response format"

\* ErrMessage with the two lookups in the other order:
\* err_json.get("message") or err_json.get("error", {}).get("message") or raw_text
ErrMessage_TopFirst(raw_text) ==
    IF ~IsJson(raw_text) THEN raw_text
    ELSE
      LET err_json == raw_text
          top == DictGet(err_json, "message", JNull)
      IN  IF ~top.ok THEN raw_text
          ELSE IF Truthy(top.val) THEN top.val
          ELSE
            LET error == DictGet(err_json, "error", JObj(NoFields))
                inner == DictGet(error.val, "message", JNull)
            IN  IF ~inner.ok THEN raw_text
                ELSE IF Truthy(inner.val) THEN inner.val
                ELSE raw_text

\* err_json.get("error", {}).get("message") or err_json.get("message") or raw_text,
\* inside try/except Exception: pass, with err_message = raw_text beforehand
ErrMessage(raw_text) ==
    IF ~IsJson(raw_text) THEN raw_text
    ELSE
      LET err_json == raw_text
          error == DictGet(err_json, "error", JObj(NoFields))
      IN  IF ~error.ok THEN raw_text
          ELSE
            LET inner == DictGet(error.val, "message", JNull)
            IN  IF ~inner.ok THEN raw_text
                ELSE IF Truthy(inner.val) THEN inner.val
                ELSE
                  LET top == DictGet(err_json, "message", JNull)
                  IN  IF Truthy(top.val) THEN top.val ELSE raw_text

\* data["choices"][0]["message"]["content"] inside try/except Exception
ExtractContent(data) ==
    LET choices == Subscript(data, "choices")
    IN  IF ~choices.ok THEN choices
        ELSE
          LET first == First(choices.val)
          IN  IF ~first.ok THEN first
              ELSE
                LET message == Subscript(first.val, "message")
                IN  IF ~message.ok THEN message
                    ELSE Subscript(message.val, "content")

\* content.strip(), outside the try block
StripContent(content) ==
    IF content.t = "str"
    THEN Returned(Strip(content.s))
    ELSE RaisedError("AttributeError", "no attribute 'strip'", 0, content)

HandleResponse(st, raw_text) ==
    IF st >= 400
    THEN RaisedError("RuntimeError", ApiErrorMsg, st, ErrMessage(raw_text))
    ELSE IF ~IsJson(raw_text)
    THEN RaisedError("RuntimeError", NonJsonMsg, 0, raw_text)
    ELSE
      LET content == ExtractContent(raw_text)
      IN  IF ~content.ok
          THEN RaisedError("RuntimeError", FormatMsg, 0, raw_text)
          ELSE StripContent(content.val)

----------------------------------------------------------------------------
(* run_once: int(channel_id_str) *)

Digits == {"0", "1", "2", "3", "4", "5", "6", "7", "8", "9"}

DigitVal(c) ==
    CASE c = "0" -> 0 [] c = "1" -> 1 [] c = "2" -> 2 [] c = "3" -> 3 [] c = "4" -> 4
      [] c = "5" -> 5 [] c = "6" -> 6 [] c = "7" -> 7 [] c = "8" -> 8 [] c = "9" -> 9

RECURSIVE Decimal(_)
Decimal(s) ==
    IF Len(s) = 0 THEN 0
    ELSE 10 * Decimal(SubSeq(s, 1, Len(s) - 1)) + DigitVal(s[Len(s)])

IsDigits(s) == Len(s) > 0 /\ \A i \in 1..Len(s) : s[i] \in Digits

\* int(s) for a str: surrounding whitespace, an optional sign, decimal digits
\* (digit grouping with "_" is not modelled; no identifier below uses it)
ParseInt(s) ==
    LET t == Strip(s)
        signed == Len(t) > 0 /\ t[1] \in {"+", "-"}
        digits == IF signed THEN SubSeq(t, 2, Len(t)) ELSE t
        sign == IF signed /\ t[1] = "-" THEN -1 ELSE 1
    IN  IF IsDigits(digits) THEN Ok(sign * Decimal(digits)) ELSE Raised("ValueError")

----------------------------------------------------------------------------
(* Inputs *)

UrlChars == {"a", "/", "v", "1"}

\* https://api.deepseek.com, abbreviated
Host == <<"a">>

\* the host followed by any path of up to MaxUrlLen characters
BaseUrls == {Host \o p : p \in UNION {[1..n -> UrlChars] : n \in 0..MaxUrlLen}}

DefaultBaseUrl == Host

Strs == {<<>>, <<"e">>, <<" ", "H", "\n">>}

Scalars == {JNull, JNum(0), JNum(7), JBool(FALSE)} \cup {JStr(s) : s \in Strs}

Contents == Scalars \cup {JList(<<>>), JObj(NoFields)}

Messages ==
    {JObj([content |-> c]) : c \in Contents}
        \cup {JObj(NoFields), JNull, JStr(<<"e">>), JList(<<JStr(<<"e">>)>>)}

ChoiceItems ==
    {JObj([message |-> m]) : m \in Messages}
        \cup {JObj(NoFields), JNull, JStr(<<"e">>), JList(<<>>)}

ChoicesValues ==
    {JList(<<c>>) : c \in ChoiceItems}
        \cup {JList(<<JObj([message |-> JObj([content |-> JStr(<<"e">>)])]), JNull>>),
              JList(<<>>), JNull, JNum(7), JStr(<<>>), JStr(<<"e">>), JObj(NoFields),
              JObj([message |-> JObj([content |-> JStr(<<"e">>)])])}

CompletionBodies == {JObj([choices |-> c]) : c \in ChoicesValues}

\* values of a message field: null, strings (the empty one too), a number
MessageValues == {JNull, JNum(7)} \cup {JStr(s) : s \in Strs}

ErrorValues ==
    {JNull, JStr(<<"e">>), JList(<<>>), JObj(NoFields)}
        \cup {JObj([message |-> m]) : m \in MessageValues}

TopMessages == {JNull, JStr(<<>>), JStr(<<"H">>), JNum(7)}

ErrorBodies ==
    {JObj([error |-> e]) : e \in ErrorValues}
        \cup {JObj([message |-> m]) : m \in TopMessages}
        \cup {JObj([error |-> e, message |-> m]) : e \in ErrorValues, m \in TopMessages}
        \cup {JObj([error |-> JObj([message |-> JStr(<<"e">>)]),
                    choices |-> JList(<<JObj([message |-> JObj([content |-> JStr(<<"H">>)])])>>)])}

OtherBodies ==
    {JObj(NoFields), JNull, JNum(7), JStr(<<"e">>), JList(<<>>),
     JList(<<JObj([message |-> JStr(<<"e">>)])>>),
     RawText(<<>>), RawText(<<"n", "o">>)}

Bodies == CompletionBodies \cup ErrorBodies \cup OtherBodies

Statuses == {200, 204, 399, 400, 401, 500}

Prompts == {"prompt"}

ChannelIdStrs == {<<"1">>, <<"0", "1">>, <<"-", "2">>, <<"@", "a">>}

\* a dict has each key once: the identifier strings of a configuration differ
TaskLists ==
    UNION {{t \in [1..n -> [id : ChannelIdStrs, prompt : Prompts]] :
                \A i, j \in 1..n : i # j => t[i].id # t[j].id} : n \in 0..MaxTasks}

SuccessBody(s) == JObj([choices |-> JList(<<JObj([message |-> JObj([content |-> JStr(s)])])>>)])

\* the responses the completion API gives during a run
RunResponses ==
    {<<200, SuccessBody(<<" ", "H", " ">>)>>,
     <<200, SuccessBody(<<"o", "k", "\n">>)>>,
     <<200, JObj([choices |-> JList(<<JObj([message |-> JObj([content |-> JNull])])>>)])>>,
     <<200, JObj([choices |-> JList(<<>>)])>>,
     <<200, RawText(<<"n", "o">>)>>,
     <<401, JObj([error |-> JObj([message |-> JStr(<<"e">>)])])>>,
     <<500, RawText(<<"n", "o">>)>>}

\* asyncio.TimeoutError raised by session.post when ClientTimeout(total=60) expires
RequestTimeout == RaisedError("TimeoutError", "", 0, RawText(<<>>))

\* every way an awaited generate_text call can end
GenerateOutcomes ==
    {HandleResponse(r[1], r[2]) : r \in RunResponses} \cup {RequestTimeout}

\* the exceptions bot.send_message raises
SendErrors ==
    {RaisedError("TelegramAPIError", "", 0, RawText(<<>>)),
     RaisedError("TimeoutError", "", 0, RawText(<<>>))}

----------------------------------------------------------------------------
(* State before anything ran *)

NotBuilt == [built |-> FALSE, url |-> <<>>]
Built(url) == [built |-> TRUE, url |-> url]

NoResult ==
    [kind |-> "pending", exc |-> "none", msg |-> "none", status |-> 0, detail |-> JNull,
     text |-> <<>>]

UrlIdle == base_url = DefaultBaseUrl /\ endpoint = NotBuilt

RespIdle == status = 200 /\ body = RawText(<<>>) /\ result = NoResult

RunStart(ts) ==
    /\ tasks = ts
    /\ idx = 1
    /\ pc = "loop"
    /\ channel_id = 0
    /\ text = <<>>
    /\ report = <<>>
    /\ sendLog = <<>>
    /\ genRes = [i \in 1..Len(ts) |-> "none"]
    /\ genText = [i \in 1..Len(ts) |-> <<>>]
    /\ sendRes = [i \in 1..Len(ts) |-> "none"]
    /\ genInFlight = {}
    /\ sendInFlight = {}

----------------------------------------------------------------------------
(* generate_text on its own: endpoint construction *)

InitEndpoint ==
    /\ base_url \in BaseUrls
    /\ endpoint = NotBuilt
    /\ RespIdle
    /\ RunStart(<<>>)

BuildEndpoint ==
    /\ ~endpoint.built
    /\ endpoint' = Built(Endpoint(base_url))
    /\ UNCHANGED <<base_url, respVars, runVars>>

NextEndpoint == BuildEndpoint

SpecEndpoint == InitEndpoint /\ [][NextEndpoint]_vars

----------------------------------------------------------------------------
(* generate_text on its own: response handling *)

InitResponse ==
    /\ UrlIdle
    /\ status \in Statuses
    /\ body \in Bodies
    /\ result = NoResult
    /\ RunStart(<<>>)

Respond ==
    /\ result.kind = "pending"
    /\ result' = HandleResponse(status, body)
    /\ UNCHANGED <<urlVars, status, body, runVars>>

NextResponse == Respond

SpecResponse == InitResponse /\ [][NextResponse]_vars

----------------------------------------------------------------------------
(* run_once *)

OkLine(i, chat) == [kind |-> "OK", channel |-> chat, err |-> NoResult, task |-> i]
ErrLine(i, chat, err) == [kind |-> "ERR", channel |-> chat, err |-> err, task |-> i]

Init ==
    /\ UrlIdle
    /\ RespIdle
    /\ \E ts \in TaskLists : RunStart(ts)

\* for ... in channel_id_to_prompt.items(): int(channel_id_str) succeeds, the try
\* block is entered and generate_text(prompt) is awaited
Iterate ==
    /\ pc = "loop"
    /\ idx <= Len(tasks)
    /\ ParseInt(tasks[idx].id).ok
    /\ channel_id' = ParseInt(tasks[idx].id).val
    /\ endpoint' = Built(Endpoint(base_url))
    /\ genInFlight' = genInFlight \cup {idx}
    /\ pc' = "generate"
    /\ UNCHANGED <<base_url, respVars, tasks, idx, text, report, sendLog, genRes,
                   genText, sendRes, sendInFlight>>

\* int(channel_id_str) raises ValueError before the try block: it leaves run_once
IterateBadId ==
    /\ pc = "loop"
    /\ idx <= Len(tasks)
    /\ ~ParseInt(tasks[idx].id).ok
    /\ pc' = "raised"
    /\ UNCHANGED <<urlVars, respVars, tasks, idx, channel_id, text, report, sendLog,
                   genRes, genText, sendRes, genInFlight, sendInFlight>>

\* the for loop is exhausted; async with Bot(...) exits and run_once returns
Finish ==
    /\ pc = "loop"
    /\ idx > Len(tasks)
    /\ pc' = "done"
    /\ UNCHANGED <<urlVars, respVars, tasks, idx, channel_id, text, report, sendLog,
                   genRes, genText, sendRes, genInFlight, sendInFlight>>

\* GenerateReturn with the send scheduled and not awaited
\* (asyncio.create_task(bot.send_message(...))): [OK] is printed at once
GenerateReturn_NoAwait ==
    /\ pc = "generate"
    /\ \E r \in GenerateOutcomes :
        /\ r.kind = "return"
        /\ text' = r.text
        /\ genRes' = [genRes EXCEPT ![idx] = "ok"]
        /\ genText' = [genText EXCEPT ![idx] = r.text]
        /\ sendLog' = Append(sendLog, [task |-> idx, chat_id |-> channel_id, text |-> r.text])
    /\ genInFlight' = genInFlight \ {idx}
    /\ sendInFlight' = sendInFlight \cup {idx}
    /\ report' = Append(report, OkLine(idx, channel_id))
    /\ idx' = idx + 1
    /\ pc' = "loop"
    /\ UNCHANGED <<urlVars, respVars, tasks, channel_id, sendRes>>

\* generate_text returns; bot.send_message(chat_id=channel_id, text=text) is awaited
GenerateReturn ==
    /\ pc = "generate"
    /\ \E r \in GenerateOutcomes :
        /\ r.kind = "return"
        /\ text' = r.text
        /\ genRes' = [genRes EXCEPT ![idx] = "ok"]
        /\ genText' = [genText EXCEPT ![idx] = r.text]
        /\ sendLog' = Append(sendLog, [task |-> idx, chat_id |-> channel_id, text |-> r.text])
    /\ genInFlight' = genInFlight \ {idx}
    /\ sendInFlight' = sendInFlight \cup {idx}
    /\ pc' = "send"
    /\ UNCHANGED <<urlVars, respVars, tasks, idx, channel_id, report, sendRes>>

\* GenerateRaise with the try block around generate_text alone: the error is
\* printed and send_message is called all the same, with the text left in `text`
GenerateRaise_SendsAnyway ==
    /\ pc = "generate"
    /\ \E r \in GenerateOutcomes :
        /\ r.kind = "raise"
        /\ report' = Append(report, ErrLine(idx, channel_id, r))
    /\ genRes' = [genRes EXCEPT ![idx] = "raised"]
    /\ genInFlight' = genInFlight \ {idx}
    /\ sendLog' = Append(sendLog, [task |-> idx, chat_id |-> channel_id, text |-> text])
    /\ sendInFlight' = sendInFlight \cup {idx}
    /\ pc' = "send"
    /\ UNCHANGED <<urlVars, respVars, tasks, idx, channel_id, text, genText, sendRes>>

\* generate_text raises; except Exception prints [ERR] and the loop goes on
GenerateRaise ==
    /\ pc = "generate"
    /\ \E r \in GenerateOutcomes :
        /\ r.kind = "raise"
        /\ report' = Append(report, ErrLine(idx, channel_id, r))
    /\ genRes' = [genRes EXCEPT ![idx] = "raised"]
    /\ genInFlight' = genInFlight \ {idx}
    /\ idx' = idx + 1
    /\ pc' = "loop"
    /\ UNCHANGED <<urlVars, respVars, tasks, channel_id, text, sendLog, genText,
                   sendRes, sendInFlight>>

\* SendReturn with a failure flag that is set once and never cleared: after an
\* earlier [ERR] line every later task is reported as failed
SendReturn_StickyFailure ==
    /\ pc = "send"
    /\ sendRes' = [sendRes EXCEPT ![idx] = "ok"]
    /\ sendInFlight' = sendInFlight \ {idx}
    /\ report' = Append(report,
                        IF \E k \in 1..Len(report) : report[k].kind = "ERR"
                        THEN ErrLine(idx, channel_id, NoResult)
                        ELSE OkLine(idx, channel_id))
    /\ idx' = idx + 1
    /\ pc' = "loop"
    /\ UNCHANGED <<urlVars, respVars, tasks, channel_id, text, sendLog, genRes,
                   genText, genInFlight>>

\* send_message returns; [OK] is printed and the loop goes on
SendReturn ==
    /\ pc = "send"
    /\ sendRes' = [sendRes EXCEPT ![idx] = "ok"]
    /\ sendInFlight' = sendInFlight \ {idx}
    /\ report' = Append(report, OkLine(idx, channel_id))
    /\ idx' = idx + 1
    /\ pc' = "loop"
    /\ UNCHANGED <<urlVars, respVars, tasks, channel_id, text, sendLog, genRes,
                   genText, genInFlight>>

\* send_message raises; except Exception prints [ERR] and the loop goes on
SendRaise ==
    /\ pc = "send"
    /\ \E e \in SendErrors : report' = Append(report, ErrLine(idx, channel_id, e))
    /\ sendRes' = [sendRes EXCEPT ![idx] = "raised"]
    /\ sendInFlight' = sendInFlight \ {idx}
    /\ idx' = idx + 1
    /\ pc' = "loop"
    /\ UNCHANGED <<urlVars, respVars, tasks, channel_id, text, sendLog, genRes,
                   genText, genInFlight>>

Next ==
    \/ Iterate
    \/ IterateBadId
    \/ Finish
    \/ GenerateReturn
    \/ GenerateRaise
    \/ SendReturn
    \/ SendRaise

Spec == Init /\ [][Next]_vars

----------------------------------------------------------------------------
(* The error kinds of the design, as generate_text raises them *)

IsUpstreamError(r) == r.kind = "raise" /\ r.exc = "RuntimeError" /\ r.msg = ApiErrorMsg
IsMalformedResponseError(r) == r.kind = "raise" /\ r.exc = "RuntimeError" /\ r.msg = NonJsonMsg
IsUnexpectedShapeError(r) == r.kind = "raise" /\ r.exc = "RuntimeError" /\ r.msg = FormatMsg

Handled == result.kind # "pending"

IsObj(j) == j.t = "obj"
HasField(j, key) == IsObj(j) /\ key \in DOMAIN j.fields

\* an object with a non-empty choices list whose first element has a message
\* object with a content string
HasExpectedShape(b) ==
    /\ HasField(b, "choices")
    /\ b.fields["choices"].t = "list"
    /\ Len(b.fields["choices"].items) > 0
    /\ HasField(b.fields["choices"].items[1], "message")
    /\ HasField(b.fields["choices"].items[1].fields["message"], "content")
    /\ b.fields["choices"].items[1].fields["message"].fields["content"].t = "str"

ContentOf(b) == b.fields["choices"].items[1].fields["message"].fields["content"].s

RunEnded == pc \in {"done", "raised"}

ParseOk(i) == ParseInt(tasks[i].id).ok

LinesOf(i) == {k \in 1..Len(report) : report[k].task = i}

----------------------------------------------------------------------------
(* C4 *)

IsVersionMarker(seg) ==
    /\ Len(seg) >= 2
    /\ seg[1] = "v"
    /\ \A i \in 2..Len(seg) : seg[i] \in Digits

SpecifiedEndpoint(configured) ==
    LET url == RStrip(configured, {"/"})
    IN  IF IsVersionMarker(LastSegment(url, "/"))
        THEN url \o ChatCompletions
        ELSE url \o V1ChatCompletions

\* C4: the endpoint is the base URL without its trailing slash, followed by
\* /chat/completions when the final path segment is a "v<digits>" version marker
\* and by /v1/chat/completions otherwise; a base ending in a version segment
\* never gets a second version segment.
C4_EndpointConstruction ==
    endpoint.built =>
        /\ endpoint.url = SpecifiedEndpoint(base_url)
        /\ IsVersionMarker(LastSegment(RStrip(base_url, {"/"}), "/"))
               => ~Contains(<<"1", "/", "v", "1", "/">>, endpoint.url)

----------------------------------------------------------------------------
(* C5 *)

\* C5: every (status, body) pair is classified by the first matching rule:
\* status >= 400 gives UpstreamError; else a non-JSON body gives
\* MalformedResponseError carrying the raw text; else a JSON body without the
\* expected shape gives UnexpectedShapeError; else the first choice's content is
\* returned, trimmed.
C5_ClassifiedInOrder ==
    Handled =>
        IF status >= 400 THEN IsUpstreamError(result)
        ELSE IF ~IsJson(body) THEN IsMalformedResponseError(result) /\ result.detail = body
        ELSE IF ~HasExpectedShape(body) THEN IsUnexpectedShapeError(result)
        ELSE result.kind = "return" /\ result.text = Strip(ContentOf(body))

----------------------------------------------------------------------------
(* C6 *)

\* C6: with status < 400 and a valid JSON body, every body that is not an object
\* with a non-empty choices list whose first element has a message object with a
\* content string fails with UnexpectedShapeError carrying the parsed structure.
C6_UnexpectedShape ==
    (Handled /\ status < 400 /\ IsJson(body) /\ ~HasExpectedShape(body)) =>
        IsUnexpectedShapeError(result) /\ result.detail = body

----------------------------------------------------------------------------
(* C7 *)

\* the precedence as claimed: a field counts when it is present (a null value
\* is read as absent)
Present(j, key) == HasField(j, key) /\ j.fields[key] # JNull

ClaimedMessage(b) ==
    IF Present(b, "error") /\ Present(b.fields["error"], "message")
    THEN b.fields["error"].fields["message"]
    ELSE IF Present(b, "message") THEN b.fields["message"]
    ELSE b

\* the precedence as amended: a field counts when its value is non-empty (true
\* in Python), and both lookups need the body to be an object whose error field
\* is absent or an object
UsableError(b) == IsObj(b) /\ ("error" \in DOMAIN b.fields => IsObj(b.fields["error"]))

AmendedMessage(b) ==
    IF ~IsJson(b) \/ ~UsableError(b) THEN b
    ELSE IF HasField(b, "error") /\ HasField(b.fields["error"], "message")
            /\ Truthy(b.fields["error"].fields["message"])
    THEN b.fields["error"].fields["message"]
    ELSE IF HasField(b, "message") /\ Truthy(b.fields["message"]) THEN b.fields["message"]
    ELSE b

\* C7 as claimed: for status >= 400 the error is an UpstreamError with the status,
\* whose message is error.message if present, else the top-level message if
\* present, else the raw body.
C7_MessageByPresence ==
    (Handled /\ status >= 400) =>
        /\ IsUpstreamError(result)
        /\ result.status = status
        /\ result.detail = ClaimedMessage(body)

\* C7 as amended: for status >= 400 the error is always an UpstreamError with the
\* status; its message is error.message if the body is a JSON object whose error
\* field is an object with a non-empty message, else the top-level message if
\* it is non-empty and the error field is absent or an object, else the raw body
\* (also for a body that is not JSON, not an object, or whose error field is not
\* an object).
C7_MessageByTruth ==
    (Handled /\ status >= 400) =>
        /\ IsUpstreamError(result)
        /\ result.status = status
        /\ result.detail = AmendedMessage(body)

\* both fields present and non-empty: error.message wins
C7_Witness ==
    /\ Handled
    /\ status = 401
    /\ body = JObj([error |-> JObj([message |-> JStr(<<"e">>)]), message |-> JStr(<<"H">>)])
    /\ IsUpstreamError(result)
    /\ result.detail = JStr(<<"e">>)

----------------------------------------------------------------------------
(* C1 *)

\* C1: a run over N tasks prints exactly N outcome lines, and the i-th line
\* carries the channel id of the i-th task.
C1_OneOutcomePerTask ==
    RunEnded =>
        /\ Len(report) = Len(tasks)
        /\ \A i \in 1..Len(tasks) :
               ParseOk(i) /\ report[i].channel = ParseInt(tasks[i].id).val

----------------------------------------------------------------------------
(* C2 *)

\* C2: task i is reported [OK] exactly when its own generate and its own send
\* succeeded, and [ERR] exactly when one of its own two steps failed, whatever
\* the other tasks did.
C2_Isolation ==
    \A i \in 1..Len(tasks) :
        /\ (\E k \in LinesOf(i) : report[k].kind = "OK")
               <=> (genRes[i] = "ok" /\ sendRes[i] = "ok")
        /\ (\E k \in LinesOf(i) : report[k].kind = "ERR")
               <=> (genRes[i] = "raised" \/ sendRes[i] = "raised")

\* tasks [A, B, C], only B's generate fails (an UpstreamError): [OK, ERR, OK]
C2_Witness ==
    /\ pc = "done"
    /\ Len(tasks) = 3
    /\ genRes = <<"ok", "raised", "ok">>
    /\ sendRes = <<"ok", "none", "ok">>
    /\ Len(report) = 3
    /\ report[1].kind = "OK" /\ report[2].kind = "ERR" /\ report[3].kind = "OK"
    /\ IsUpstreamError(report[2].err)

----------------------------------------------------------------------------
(* C3 *)

\* C3: send_message is called only for a task whose generate_text call returned,
\* at most once per task, with that task's channel id and the text that call
\* returned.
C3_SendAfterGenerate ==
    \A k \in 1..Len(sendLog) :
        LET call == sendLog[k]
        IN  /\ genRes[call.task] = "ok"
            /\ ParseOk(call.task)
            /\ call.chat_id = ParseInt(tasks[call.task].id).val
            /\ call.text = genText[call.task]
            /\ \A m \in 1..Len(sendLog) : m # k => sendLog[m].task # call.task

\* a task whose generate timed out lies between two delivered tasks with
\* different texts and channel ids
C3_Witness ==
    /\ Len(tasks) = 3
    /\ Len(sendLog) = 2
    /\ genRes[2] = "raised"
    /\ Len(report) >= 2 /\ report[2].err = RequestTimeout
    /\ sendLog[1].task = 1 /\ sendLog[2].task = 3
    /\ sendLog[1].text # sendLog[2].text
    /\ sendLog[1].chat_id # sendLog[2].chat_id

----------------------------------------------------------------------------
(* C8 *)

\* C8: a run always ends normally, after every task has been attempted: nothing
\* raised while a task is handled leaves run_once, and a failed or timed-out
\* request skips no later task.
C8_EndsNormally ==
    /\ pc # "raised"
    /\ pc = "done" => \A i \in 1..Len(tasks) : genRes[i] # "none"

----------------------------------------------------------------------------
(* C9 *)

\* C9: at most one generate_text call and at most one send_message call are in
\* flight, and while a call of task j is in flight no call of an earlier task is,
\* and every earlier task has its outcome line.
C9_Sequential ==
    /\ Cardinality(genInFlight) <= 1
    /\ Cardinality(sendInFlight) <= 1
    /\ \A j \in genInFlight \cup sendInFlight :
           \A i \in 1..(j - 1) :
               /\ i \notin genInFlight \cup sendInFlight
               /\ LinesOf(i) # {}

\* the second task's send is in flight after the first task was reported
C9_Witness ==
    /\ sendInFlight = {2}
    /\ genInFlight = {}
    /\ Len(report) = 1
    /\ sendRes[1] = "raised"

----------------------------------------------------------------------------
(* C10 *)

\* C10: a channel identifier that int() rejects fails that task only: the run
\* still ends with one line per configured channel, an [ERR] line for that
\* task, and every other task attempted.
C10_BadIdIsolated ==
    RunEnded =>
        /\ Len(report) = Len(tasks)
        /\ \A i \in 1..Len(tasks) :
               IF ParseOk(i) THEN genRes[i] # "none" ELSE report[i].kind = "ERR"

====
